---- MODULE Spec2Model ----
(***************************************************************************)
(* GoogleDriveService (src/src/services/google-drive.service.ts) together  *)
(* with the file utilities and the error classes it uses                   *)
(* (src/src/utils/file.utils.ts).                                          *)
(*                                                                         *)
(* A JavaScript string that the code inspects character by character (a    *)
(* file name, a file id) is a sequence of one-character strings; a string  *)
(* the code only builds or passes on (a message, a MIME type, a token) is  *)
(* a TLA+ string.  A value whose JavaScript type varies (an optional       *)
(* field, a rejected value) is a record tagged with its type in field t.   *)
(***************************************************************************)
EXTENDS Integers, Sequences, FiniteSets, TLC

VARIABLES service, calls, handlesBuilt

vars == <<service, calls, handlesBuilt>>

----------------------------------------------------------------------------
(* JavaScript values                                                       *)

Undefined == [t |-> "undefined"]
Null == [t |-> "null"]
Num(n) == [t |-> "number", n |-> n]
Str(s) == [t |-> "string", s |-> s]
Bool(b) == [t |-> "boolean", b |-> b]

\* ToBoolean of the values the model uses
Truthy(v) ==
  CASE v.t = "undefined" -> FALSE
    [] v.t = "null" -> FALSE
    [] v.t = "string" -> v.s # ""
    [] v.t = "number" -> v.n # 0
    [] v.t = "boolean" -> v.b
    [] OTHER -> TRUE

\* a || b
OrElse(a, b) == IF Truthy(a) THEN a ELSE b

\* typeof v
TypeOf(v) ==
  CASE v.t = "null" -> "object"
    [] v.t = "function" -> "function"
    [] OTHER -> v.t

\* v instanceof C : C is on the prototype chain of v
InstanceOf(v, C) == v.t = "object" /\ C \in v.protos

\* 'code' in v, for an object v
HasCode(v) == v.hasCode

\* an Error thrown by the client library; code is Undefined when the error has
\* no code property
LibError(message, hasCode, code) ==
  [t |-> "object", protos |-> {"Error"}, name |-> "Error",
   message |-> message, hasCode |-> hasCode, code |-> code]

\* a plain object used as a rejection value: { code, message }
PlainObject(message, hasCode, code) ==
  [t |-> "object", protos |-> {}, name |-> "Object",
   message |-> message, hasCode |-> hasCode, code |-> code]

----------------------------------------------------------------------------
(* src/src/constants/index.ts                                              *)

DRIVE_API_VERSION == "v3"
DEFAULT_FILE_FIELDS == "id,name,mimeType,size,parents,createdTime,modifiedTime"

----------------------------------------------------------------------------
(* src/src/utils/file.utils.ts : file utilities                            *)

SetMin(S) == CHOOSE x \in S : \A y \in S : x <= y
SetMax(S) == CHOOSE x \in S : \A y \in S : x >= y

\* White space removed by String.prototype.trim (those the inputs use)
WhiteSpace == {" ", "\t", "\n"}

\* String.prototype.trim
Trim(s) ==
  LET keep == {i \in 1..Len(s) : s[i] \notin WhiteSpace}
  IN IF keep = {} THEN <<>> ELSE SubSeq(s, SetMin(keep), SetMax(keep))

UpperCase == <<"A","B","C","D","E","F","G","H","I","J","K","L","M",
               "N","O","P","Q","R","S","T","U","V","W","X","Y","Z">>
LowerCase == <<"a","b","c","d","e","f","g","h","i","j","k","l","m",
               "n","o","p","q","r","s","t","u","v","w","x","y","z">>

ToLowerChar(c) ==
  IF \E i \in 1..26 : UpperCase[i] = c
  THEN LowerCase[CHOOSE i \in 1..26 : UpperCase[i] = c]
  ELSE c

\* String.prototype.toLowerCase
ToLowerCase(s) == [i \in 1..Len(s) |-> ToLowerChar(s[i])]

\* fileName.split('.').pop() : the text after the last '.', the whole name
\* when it has none
SplitPop(s) ==
  LET dots == {i \in 1..Len(s) : s[i] = "."}
  IN IF dots = {} THEN s ELSE SubSeq(s, SetMax(dots) + 1, Len(s))

\* bufferToStream : Readable.from(buffer)
bufferToStream(buffer) == [t |-> "object", kind |-> "Readable", from |-> buffer]

\* validateFileName without the trim: a name of white space passes
validateFileNameNoTrim(fileName) ==
  /\ ~(\E i \in 1..Len(fileName) : fileName[i] \in {"<", ">", ":", "\"", "/", "\\", "|", "?", "*"})
  /\ Len(fileName) > 0

\* the character class of the regular expression /[<>:"/\\|?*]/
invalidChars == {"<", ">", ":", "\"", "/", "\\", "|", "?", "*"}

validateFileName(fileName) ==
  /\ ~(\E i \in 1..Len(fileName) : fileName[i] \in invalidChars)
  /\ Len(Trim(fileName)) > 0

\* the own properties of the mimeTypes object literal
mimeTypes ==
  { <<<<"j","p","g">>, "image/jpeg">>,
    <<<<"j","p","e","g">>, "image/jpeg">>,
    <<<<"p","n","g">>, "image/png">>,
    <<<<"g","i","f">>, "image/gif">>,
    <<<<"w","e","b","p">>, "image/webp">>,
    <<<<"p","d","f">>, "application/pdf">>,
    <<<<"d","o","c">>, "application/msword">>,
    <<<<"d","o","c","x">>,
      "application/vnd.openxmlformats-officedocument.wordprocessingml.document">>,
    <<<<"x","l","s">>, "application/vnd.ms-excel">>,
    <<<<"x","l","s","x">>,
      "application/vnd.openxmlformats-officedocument.spreadsheetml.sheet">>,
    <<<<"p","p","t">>, "application/vnd.ms-powerpoint">>,
    <<<<"p","p","t","x">>,
      "application/vnd.openxmlformats-officedocument.presentationml.presentation">>,
    <<<<"t","x","t">>, "text/plain">>,
    <<<<"c","s","v">>, "text/csv">>,
    <<<<"j","s","o","n">>, "application/json">>,
    <<<<"x","m","l">>, "application/xml">>,
    <<<<"z","i","p">>, "application/zip">>,
    <<<<"r","a","r">>, "application/x-rar-compressed">>,
    <<<<"7","z">>, "application/x-7z-compressed">>,
    <<<<"m","p","4">>, "video/mp4">>,
    <<<<"a","v","i">>, "video/x-msvideo">>,
    <<<<"m","o","v">>, "video/quicktime">>,
    <<<<"m","p","3">>, "audio/mpeg">>,
    <<<<"w","a","v">>, "audio/wav">>,
    <<<<"f","l","a","c">>, "audio/flac">> }

\* the lower-case property names mimeTypes inherits from Object.prototype
\* (mimeTypes is an object literal, so mimeTypes[extension] finds them)
inheritedProperties ==
  { <<<<"c","o","n","s","t","r","u","c","t","o","r">>,
      [t |-> "function", name |-> "Object"]>>,
    <<<<"_","_","p","r","o","t","o","_","_">>,
      [t |-> "object", protos |-> {}, name |-> "Object.prototype"]>> }

\* mimeTypes[extension]
mimeTypesGet(extension) ==
  IF \E e \in mimeTypes : e[1] = extension
  THEN Str((CHOOSE e \in mimeTypes : e[1] = extension)[2])
  ELSE IF \E e \in inheritedProperties : e[1] = extension
  THEN (CHOOSE e \in inheritedProperties : e[1] = extension)[2]
  ELSE Undefined

\* getMimeTypeFromExtension without toLowerCase
getMimeTypeFromExtensionCaseSensitive(fileName) ==
  LET extension == SplitPop(fileName)
  IN IF extension # <<>>
     THEN OrElse(mimeTypesGet(extension), Str("application/octet-stream"))
     ELSE Str("application/octet-stream")

getMimeTypeFromExtension(fileName) ==
  LET extension == ToLowerCase(SplitPop(fileName))
  IN IF extension # <<>>
     THEN OrElse(mimeTypesGet(extension), Str("application/octet-stream"))
     ELSE Str("application/octet-stream")

(* formatFileSize.  A byte count is the number m * 1024^e, kept as the     *)
(* pair (m, e) so that counts up to the petabyte range are exact; nan      *)
(* marks NaN.  A string argument is the sequence of its characters.        *)

SizeNumber(m, e) == [t |-> "number", nan |-> FALSE, m |-> m, e |-> e]
NaN == [t |-> "number", nan |-> TRUE, m |-> 0, e |-> 0]
SizeString(chars) == [t |-> "string", chars |-> chars]

DecimalDigits == <<"0","1","2","3","4","5","6","7","8","9">>

IsDigit(c) == \E i \in 1..10 : DecimalDigits[i] = c
DigitValue(c) == (CHOOSE i \in 1..10 : DecimalDigits[i] = c) - 1

\* the value of a sequence of decimal digits
RECURSIVE DigitsValue(_)
DigitsValue(s) ==
  IF s = <<>> THEN 0
  ELSE DigitsValue(SubSeq(s, 1, Len(s) - 1)) * 10 + DigitValue(s[Len(s)])

\* parseInt that stops after the first digit
parseIntOneDigit(chars) ==
  IF chars # <<>> /\ IsDigit(chars[1])
  THEN SizeNumber(DigitValue(chars[1]), 0)
  ELSE NaN

\* parseInt(string, 10): leading white space is skipped, a sign is read, then
\* the longest run of digits; NaN when there is no digit
parseInt(chars) ==
  LET kept == {i \in 1..Len(chars) : chars[i] \notin WhiteSpace}
      body == IF kept = {} THEN <<>>
              ELSE SubSeq(chars, SetMin(kept), Len(chars))
      signed == body # <<>> /\ body[1] \in {"+", "-"}
      rest == IF signed THEN SubSeq(body, 2, Len(body)) ELSE body
      stops == {i \in 1..Len(rest) : ~IsDigit(rest[i])}
      digits == IF stops = {} THEN rest
                ELSE SubSeq(rest, 1, SetMin(stops) - 1)
      value == DigitsValue(digits)
  IN IF digits = <<>> THEN NaN
     ELSE SizeNumber(IF signed /\ body[1] = "-" THEN 0 - value ELSE value, 0)

\* const k = 1024
k == 1024

\* const sizes = ['Bytes', 'KB', 'MB', 'GB', 'TB']
sizes == <<"Bytes", "KB", "MB", "GB", "TB">>

\* `${sizes[i]}` : 'undefined' beyond the end of the array
sizesAt(i) == IF i + 1 \in 1..Len(sizes) THEN sizes[i + 1] ELSE "undefined"

\* Math.pow(k, j)
RECURSIVE Pow(_, _)
Pow(b, j) == IF j = 0 THEN 1 ELSE b * Pow(b, j - 1)

\* Math.floor(Math.log(m) / Math.log(k)) for an integer m >= 1
RECURSIVE FloorLog(_)
FloorLog(m) == IF m < k THEN 0 ELSE 1 + FloorLog(m \div k)

\* String(n) for a non-negative integer n
RECURSIVE NatToString(_)
NatToString(n) ==
  IF n < 10 THEN DecimalDigits[n + 1]
  ELSE NatToString(n \div 10) \o DecimalDigits[(n % 10) + 1]

\* String(parseFloat(x.toFixed(2))) for x = h / 100: at most two decimals,
\* trailing zeros dropped
HundredthsToString(h) ==
  LET whole == NatToString(h \div 100)
      frac == h % 100
  IN IF frac = 0 THEN whole
     ELSE IF frac % 10 = 0 THEN whole \o "." \o DecimalDigits[(frac \div 10) + 1]
     ELSE whole \o "." \o DecimalDigits[(frac \div 10) + 1]
                \o DecimalDigits[(frac % 10) + 1]

\* the formatting of a size that is not 0 (lines 77 to 81)
formatNonZero(size) ==
  IF size.nan \/ size.m < 0
  THEN "NaN undefined"
  ELSE LET j == FloorLog(size.m)
           i == size.e + j
           \* (size / Math.pow(k, i)).toFixed(2), in hundredths: the quotient
           \* m / k^j is exact, and toFixed rounds it half up
           h == (200 * size.m + Pow(k, j)) \div (2 * Pow(k, j))
       IN HundredthsToString(h) \o " " \o sizesAt(i)

\* formatFileSize without the early return for 0
formatFileSizeNoZeroCase(bytes) ==
  LET size == IF bytes.t = "string" THEN parseInt(bytes.chars) ELSE bytes
  IN IF ~size.nan /\ size.m = 0 THEN Str("NaN undefined")
     ELSE Str(formatNonZero(size))

formatFileSize(bytes) ==
  LET size == IF bytes.t = "string" THEN parseInt(bytes.chars) ELSE bytes
  IN IF ~size.nan /\ size.m = 0 THEN Str("0 Bytes")
     ELSE Str(formatNonZero(size))

----------------------------------------------------------------------------
(* src/src/utils/file.utils.ts : error classes                             *)

GoogleDriveError(message, code, statusCode) ==
  [t |-> "object", protos |-> {"GoogleDriveError", "Error"},
   name |-> "GoogleDriveError", message |-> message,
   hasCode |-> TRUE, code |-> code, statusCode |-> statusCode,
   cause |-> Undefined]

FileUploadError(message, fileName, cause) ==
  [GoogleDriveError("File upload failed: " \o message,
                    Str("FILE_UPLOAD_ERROR"), Undefined)
     EXCEPT !.name = "FileUploadError",
            !.cause = cause,
            !.protos = @ \cup {"FileUploadError"}]
  @@ [fileName |-> fileName]

FileDownloadError(message, fileId, cause) ==
  [GoogleDriveError("File download failed: " \o message,
                    Str("FILE_DOWNLOAD_ERROR"), Undefined)
     EXCEPT !.name = "FileDownloadError",
            !.cause = cause,
            !.protos = @ \cup {"FileDownloadError"}]
  @@ [fileId |-> fileId]

\* AuthenticationError built as a bare GoogleDriveError, its tag not set
AuthenticationErrorUntagged(message, cause) ==
  [GoogleDriveError("Authentication failed: " \o message,
                    Str("AUTHENTICATION_ERROR"), Num(401))
     EXCEPT !.cause = cause,
            !.protos = @ \cup {"AuthenticationError"}]

AuthenticationError(message, cause) ==
  [GoogleDriveError("Authentication failed: " \o message,
                    Str("AUTHENTICATION_ERROR"), Num(401))
     EXCEPT !.name = "AuthenticationError",
            !.cause = cause,
            !.protos = @ \cup {"AuthenticationError"}]

ConfigurationError(message) ==
  [GoogleDriveError("Configuration error: " \o message,
                    Str("CONFIGURATION_ERROR"), Num(500))
     EXCEPT !.name = "ConfigurationError",
            !.protos = @ \cup {"ConfigurationError"}]

----------------------------------------------------------------------------
(* Inputs                                                                  *)

\* the number of client handles (google.drive(...)) built in one run
MaxHandles == 3

\* GoogleDriveModuleOptions handed to the constructor
ModuleOptions ==
  { [clientId |-> "client-id", clientSecret |-> "client-secret",
     redirectUri |-> "http://localhost/callback",
     refreshToken |-> r, accessToken |-> a] :
      r \in {Undefined, Str(""), Str("module-refresh")},
      a \in {Undefined, Str("module-access")} }

\* UserDriveOptions of the per-user operations
UserOptions ==
  { [credentials |-> [accessToken |-> Str("user1-access"),
                      refreshToken |-> Undefined]],
    [credentials |-> [accessToken |-> Str("user2-access"),
                      refreshToken |-> Str("user2-refresh")]] }

\* UploadFileOptions.name
FileNames ==
  { <<"r",".","p","d","f">>,
    <<"N",".","T","X","T">>,
    <<"n","o","t","e","s">>,
    <<"a",".","c","o","n","s","t","r","u","c","t","o","r">>,
    <<>>,
    <<" ","\t">>,
    <<"a","<","b",".","t","x","t">>,
    <<"c",":","d">> }

\* UploadFileOptions.mimeType
MimeTypeOptions == {Undefined, Str(""), Str("image/png")}

\* UploadFileOptions.parents
ParentsOptions == {Undefined, [t |-> "object", items |-> <<"folder-1">>]}

\* the content argument: a Buffer or a Readable
FileStreams ==
  { [t |-> "object", kind |-> "Buffer", bytes |-> "bytes-1"],
    [t |-> "object", kind |-> "Readable", from |-> "source-1"] }

UploadOptions ==
  { [name |-> n, mimeType |-> m, parents |-> p] :
      n \in FileNames, m \in MimeTypeOptions, p \in ParentsOptions }

\* the fileId argument
FileIds == { <<>>, <<" "," "," ">>, <<"\t">>, <<"i","d","1">>, <<" ","x">> }

\* what the library throws while a client is built: nothing, an Error, or a
\* value that is no Error
NoThrow == [t |-> "nothrow"]
BuildThrows ==
  { LibError("invalid client options", FALSE, Undefined),
    LibError("The argument must be of type string", TRUE,
             Str("ERR_INVALID_ARG_TYPE")),
    Str("bad") }

\* the values a remote call rejects with
Rejections ==
  { LibError("Not found", TRUE, Num(404)),
    LibError("Forbidden", TRUE, Num(403)),
    LibError("Backend error", TRUE, Num(500)),
    LibError("Forbidden", TRUE, Str("403")),
    LibError("socket hang up", FALSE, Undefined),
    PlainObject("File not found", TRUE, Num(404)),
    PlainObject("Access denied", TRUE, Num(403)),
    PlainObject("Rate limited", TRUE, Num(429)),
    Str("timeout"),
    Null,
    Undefined }

\* the file resources a remote create or metadata call answers with
FileResources ==
  { [id |-> "X", name |-> "r.pdf", mimeType |-> "application/pdf",
     size |-> "1024", createdTime |-> "2023-01-01T00:00:00.000Z",
     modifiedTime |-> "2023-01-01T00:00:00.000Z"],
    [id |-> "file-2", name |-> "notes", mimeType |-> "text/plain",
     size |-> "0", parents |-> <<"folder-1">>,
     createdTime |-> "2023-01-02T00:00:00.000Z",
     modifiedTime |-> "2023-01-03T00:00:00.000Z"] }

\* the streams a remote media get answers with
RemoteStreams ==
  { [t |-> "object", kind |-> "Readable", from |-> "remote-1"],
    [t |-> "object", kind |-> "Readable", from |-> "remote-2"] }

\* the responses of one remote call, by api and mode
Responses(request) ==
  CASE request.api = "files.create" -> {[data |-> d] : d \in FileResources}
    [] request.api = "files.get" /\ request.options # Undefined ->
         {[data |-> d] : d \in RemoteStreams}
    [] request.api = "files.get" /\ request.options = Undefined ->
         {[data |-> d] : d \in FileResources}
    [] request.api = "about.get" -> {[data |-> [user |-> "me"]]}

----------------------------------------------------------------------------
(* An invocation of an async method: it runs to its first await (pc        *)
(* "await", the remote request issued) or to its end (pc "done"), and      *)
(* resumes when the awaited promise settles.                               *)

Pending == [kind |-> "pending"]

Returned(v) == [kind |-> "return", value |-> v]
Threw(e) == [kind |-> "throw", value |-> e]

Idle ==
  [pc |-> "idle", op |-> "none", args |-> <<>>, built |-> <<>>,
   requests |-> <<>>, settled |-> Pending, outcome |-> Pending]

\* the method ended before any await, with `built` the handles it built
Ended(outcome, built) ==
  [pc |-> "done", built |-> built, requests |-> <<>>, outcome |-> outcome]

\* the method awaits the remote call `request`
Awaits(request, built) ==
  [pc |-> "await", built |-> built, requests |-> <<request>>,
   outcome |-> Pending]

\* a request issued on a client handle
Request(drive, api, params, options) ==
  [api |-> api, drive |-> drive, params |-> params, options |-> options]

----------------------------------------------------------------------------
(* src/src/services/google-drive.service.ts                                *)

\* new google.auth.OAuth2(clientId, clientSecret, redirectUri)
OAuth2(options) ==
  [clientId |-> options.clientId, clientSecret |-> options.clientSecret,
   redirectUri |-> options.redirectUri,
   credentials |-> [isSet |-> FALSE, refresh_token |-> Undefined,
                    access_token |-> Undefined]]

\* auth.setCredentials({ refresh_token, access_token })
setCredentials(auth, refresh_token, access_token) ==
  [auth EXCEPT !.credentials =
     [isSet |-> TRUE, refresh_token |-> refresh_token,
      access_token |-> access_token]]

\* google.drive({ version, auth }) : the id-th client handle of the run
googleDrive(id, auth) == [id |-> id, version |-> DRIVE_API_VERSION, auth |-> auth]

\* initializeDrive that sets the credentials when either token is given
initializeDriveAnyToken(options, id, thrown) ==
  IF thrown = NoThrow
  THEN LET auth0 == OAuth2(options)
           auth == IF Truthy(options.refreshToken)
                      \/ Truthy(options.accessToken)
                   THEN setCredentials(auth0, options.refreshToken,
                                       options.accessToken)
                   ELSE auth0
       IN [state |-> "ready", options |-> options,
           drive |-> googleDrive(id, auth), error |-> Undefined]
  ELSE [state |-> "failed", options |-> options, drive |-> Undefined,
        error |-> ConfigurationError("Unknown initialization error")]

\* initializeDrive that sets the credentials whatever the options hold
initializeDriveAlwaysSet(options, id, thrown) ==
  IF thrown = NoThrow
  THEN [state |-> "ready", options |-> options,
        drive |-> googleDrive(id, setCredentials(OAuth2(options),
                                                 options.refreshToken,
                                                 options.accessToken)),
        error |-> Undefined]
  ELSE [state |-> "failed", options |-> options, drive |-> Undefined,
        error |-> ConfigurationError("Unknown initialization error")]

\* initializeDrive with the throw swallowed: the service is handed out with
\* no client handle
initializeDriveSwallowing(options, id, thrown) ==
  IF thrown = NoThrow
  THEN [state |-> "ready", options |-> options,
        drive |-> googleDrive(id, OAuth2(options)), error |-> Undefined]
  ELSE [state |-> "ready", options |-> options, drive |-> Undefined,
        error |-> Undefined]

\* initializeDrive : the service after construction; `thrown` is what the
\* library throws while the client is built
initializeDrive(options, id, thrown) ==
  IF thrown = NoThrow
  THEN LET auth0 == OAuth2(options)
           auth == IF Truthy(options.refreshToken)
                   THEN setCredentials(auth0, options.refreshToken,
                                       options.accessToken)
                   ELSE auth0
       IN [state |-> "ready", options |-> options,
           drive |-> googleDrive(id, auth), error |-> Undefined]
  ELSE LET message == IF InstanceOf(thrown, "Error") THEN thrown.message
                      ELSE "Unknown initialization error"
       IN [state |-> "failed", options |-> options, drive |-> Undefined,
           error |-> ConfigurationError(message)]

\* createUserDriveInstance that puts the module-wide tokens on the new handle
createUserDriveInstanceModuleTokens(options, credentials, id) ==
  googleDrive(id, setCredentials(OAuth2(options), options.refreshToken,
                                 options.accessToken))

\* createUserDriveInstance
createUserDriveInstance(options, credentials, id) ==
  googleDrive(id, setCredentials(OAuth2(options), credentials.refreshToken,
                                 credentials.accessToken))

\* fileStream instanceof Buffer
IsBuffer(fileStream) == fileStream.kind = "Buffer"

\* the arguments of files.create with options.mimeType ?? ... in place of
\* options.mimeType || ... : an empty MIME type is passed on
createParamsNullish(fileStream, options) ==
  LET stream == IF IsBuffer(fileStream) THEN bufferToStream(fileStream)
                ELSE fileStream
      mimeType == IF options.mimeType = Undefined
                  THEN getMimeTypeFromExtension(options.name)
                  ELSE options.mimeType
      media == [mimeType |-> mimeType, body |-> stream]
      fileMetadata == [name |-> options.name, parents |-> options.parents]
  IN [requestBody |-> fileMetadata, media |-> media,
      fields |-> DEFAULT_FILE_FIELDS]

\* the arguments of files.create, built by uploadFile and
\* uploadFileToUserDrive
createParams(fileStream, options) ==
  LET stream == IF IsBuffer(fileStream) THEN bufferToStream(fileStream)
                ELSE fileStream
      mimeType == OrElse(options.mimeType,
                         getMimeTypeFromExtension(options.name))
      media == [mimeType |-> mimeType, body |-> stream]
      fileMetadata == [name |-> options.name, parents |-> options.parents]
  IN [requestBody |-> fileMetadata, media |-> media,
      fields |-> DEFAULT_FILE_FIELDS]

\* uploadFile without the file name validation
uploadFileUnvalidated(drive, fileStream, options) ==
  Awaits(Request(drive, "files.create",
                 createParams(fileStream, options), Undefined), <<>>)

\* uploadFile, to its first await
uploadFile(drive, fileStream, options) ==
  IF ~validateFileName(options.name)
  THEN Ended(Threw(FileUploadError("Invalid file name", options.name,
                                   Undefined)), <<>>)
  ELSE Awaits(Request(drive, "files.create",
                      createParams(fileStream, options), Undefined), <<>>)

\* uploadFile returning the response data without the viewer URL
uploadFileThenNoUrl(options, response) == Returned(response.data)

\* uploadFile, after files.create resolved
uploadFileThen(options, response) ==
  LET result == [downloadUrl |-> "https://drive.google.com/file/d/"
                                   \o response.data.id \o "/view"]
                @@ response.data
  IN Returned(result)

\* the catch block of uploadFile without the cause
uploadFileCatchNoCause(options, error) ==
  LET message == IF InstanceOf(error, "Error") THEN error.message
                 ELSE "Unknown upload error"
  IN Threw(FileUploadError(message, options.name, Undefined))

\* uploadFile, the catch block
uploadFileCatch(options, error) ==
  LET message == IF InstanceOf(error, "Error") THEN error.message
                 ELSE "Unknown upload error"
  IN Threw(FileUploadError(message, options.name,
                           IF InstanceOf(error, "Error") THEN error
                           ELSE Undefined))

\* the id check without the trim: !fileId
fileIdEmpty(fileId) == Len(fileId) = 0

\* !fileId || fileId.trim().length === 0
fileIdMissing(fileId) == Len(fileId) = 0 \/ Len(Trim(fileId)) = 0

\* downloadFile, to its first await
downloadFile(drive, fileId) ==
  IF fileIdMissing(fileId)
  THEN Ended(Threw(FileDownloadError("File ID is required", fileId,
                                     Undefined)), <<>>)
  ELSE Awaits(Request(drive, "files.get",
                      [fileId |-> fileId, alt |-> "media"],
                      [responseType |-> "stream"]), <<>>)

\* downloadFile that drains the remote stream into a buffer and returns that
downloadFileThenBuffered(response) ==
  Returned([response.data EXCEPT !.kind = "Buffer"])

\* downloadFile, after files.get resolved
downloadFileThen(response) == Returned(response.data)

\* error && typeof error === 'object' && 'code' in error
hasErrorCode(error) ==
  Truthy(error) /\ TypeOf(error) = "object" /\ HasCode(error)

\* the catch block of downloadFile without the 403 case
downloadFileCatchNoAuth(fileId, error) ==
  LET message == IF InstanceOf(error, "Error") THEN error.message
                 ELSE "Unknown download error"
      cause == IF InstanceOf(error, "Error") THEN error ELSE Undefined
  IN IF hasErrorCode(error) /\ error.code = Num(404)
     THEN Threw(FileDownloadError("File not found", fileId, cause))
     ELSE Threw(FileDownloadError(message, fileId, cause))

\* downloadFile, the catch block
downloadFileCatch(fileId, error) ==
  LET message == IF InstanceOf(error, "Error") THEN error.message
                 ELSE "Unknown download error"
      cause == IF InstanceOf(error, "Error") THEN error ELSE Undefined
  IN IF hasErrorCode(error)
     THEN CASE error.code = Num(404) ->
                 Threw(FileDownloadError("File not found", fileId, cause))
            [] error.code = Num(403) ->
                 Threw(AuthenticationError("Access denied", cause))
            [] OTHER ->
                 Threw(FileDownloadError(message, fileId, cause))
     ELSE Threw(FileDownloadError(message, fileId, cause))

\* getFileMetadata, to its first await
getFileMetadata(drive, fileId) ==
  IF fileIdMissing(fileId)
  THEN Ended(Threw(FileDownloadError("File ID is required", fileId,
                                     Undefined)), <<>>)
  ELSE Awaits(Request(drive, "files.get",
                      [fileId |-> fileId, fields |-> DEFAULT_FILE_FIELDS],
                      Undefined), <<>>)

\* getFileMetadata, after files.get resolved
getFileMetadataThen(response) == Returned(response.data)

\* the catch block of getFileMetadata with the 404 and 403 cases of
\* downloadFile
getFileMetadataCatchSpecialCased(fileId, error) ==
  downloadFileCatch(fileId, error)

\* getFileMetadata, the catch block
getFileMetadataCatch(fileId, error) ==
  LET message == IF InstanceOf(error, "Error") THEN error.message
                 ELSE "Unknown error"
  IN Threw(FileDownloadError(message, fileId,
                             IF InstanceOf(error, "Error") THEN error
                             ELSE Undefined))

\* testConnection, to its first await
testConnection(drive) ==
  Awaits(Request(drive, "about.get", [fields |-> "user"], Undefined), <<>>)

\* testConnection, after about.get resolved
testConnectionThen(response) == Returned(Bool(TRUE))

\* the catch block of testConnection raising what it caught
testConnectionCatchRethrow(error) == Threw(error)

\* testConnection, the catch block
testConnectionCatch(error) == Returned(Bool(FALSE))

\* the catch block of uploadFileToUserDrive with an empty file name
uploadFileToUserDriveCatchNoName(options, error) ==
  LET message == IF InstanceOf(error, "Error") THEN error.message
                 ELSE "Unknown upload error"
  IN Threw(FileUploadError(message, <<>>,
                           IF InstanceOf(error, "Error") THEN error
                           ELSE Undefined))

\* uploadFileToUserDrive, the catch block
uploadFileToUserDriveCatch(options, error) ==
  LET message == IF InstanceOf(error, "Error") THEN error.message
                 ELSE "Unknown upload error"
  IN Threw(FileUploadError(message, options.name,
                           IF InstanceOf(error, "Error") THEN error
                           ELSE Undefined))

\* uploadFileToUserDrive, to its first await; `thrown` is what the library
\* throws while the call's own client handle is built
\* uploadFileToUserDrive whose handle is built outside the try block, the
\* failure wrapped as at construction
uploadFileToUserDriveBuildUncaught(moduleOptions, fileStream, options, userOptions, id, thrown) ==
  IF ~validateFileName(options.name)
  THEN Ended(Threw(FileUploadError("Invalid file name", options.name,
                                   Undefined)), <<>>)
  ELSE IF thrown # NoThrow
  THEN Ended(Threw(ConfigurationError("Unknown initialization error")), <<>>)
  ELSE LET userDrive == createUserDriveInstance(moduleOptions,
                                                userOptions.credentials, id)
       IN Awaits(Request(userDrive, "files.create",
                         createParams(fileStream, options), Undefined),
                 <<userDrive>>)

uploadFileToUserDrive(moduleOptions, fileStream, options, userOptions, id, thrown) ==
  IF ~validateFileName(options.name)
  THEN Ended(Threw(FileUploadError("Invalid file name", options.name,
                                   Undefined)), <<>>)
  ELSE IF thrown # NoThrow
  THEN Ended(uploadFileToUserDriveCatch(options, thrown), <<>>)
  ELSE LET userDrive == createUserDriveInstance(moduleOptions,
                                                userOptions.credentials, id)
       IN Awaits(Request(userDrive, "files.create",
                         createParams(fileStream, options), Undefined),
                 <<userDrive>>)

\* uploadFileToUserDrive, after files.create resolved
uploadFileToUserDriveThen(options, response) ==
  LET result == [downloadUrl |-> "https://drive.google.com/file/d/"
                                   \o response.data.id \o "/view"]
                @@ response.data
  IN Returned(result)

\* the catch block of downloadFileFromUserDrive raising an error without a
\* code as it is
downloadFileFromUserDriveCatchLeak(fileId, error) ==
  LET message == IF InstanceOf(error, "Error") THEN error.message
                 ELSE "Unknown download error"
      cause == IF InstanceOf(error, "Error") THEN error ELSE Undefined
  IN IF hasErrorCode(error)
     THEN CASE error.code = Num(404) ->
                 Threw(FileDownloadError("File not found in user drive",
                                         fileId, cause))
            [] error.code = Num(403) ->
                 Threw(AuthenticationError("Access denied to user drive",
                                           cause))
            [] OTHER ->
                 Threw(FileDownloadError(message, fileId, cause))
     ELSE Threw(error)

\* downloadFileFromUserDrive, the catch block
downloadFileFromUserDriveCatch(fileId, error) ==
  LET message == IF InstanceOf(error, "Error") THEN error.message
                 ELSE "Unknown download error"
      cause == IF InstanceOf(error, "Error") THEN error ELSE Undefined
  IN IF hasErrorCode(error)
     THEN CASE error.code = Num(404) ->
                 Threw(FileDownloadError("File not found in user drive",
                                         fileId, cause))
            [] error.code = Num(403) ->
                 Threw(AuthenticationError("Access denied to user drive",
                                           cause))
            [] OTHER ->
                 Threw(FileDownloadError(message, fileId, cause))
     ELSE Threw(FileDownloadError(message, fileId, cause))

\* downloadFileFromUserDrive that builds its handle before it looks at the id
downloadFileFromUserDriveEagerHandle(moduleOptions, fileId, userOptions, id, thrown) ==
  LET userDrive == createUserDriveInstance(moduleOptions,
                                           userOptions.credentials, id)
  IN IF thrown # NoThrow
     THEN Ended(downloadFileFromUserDriveCatch(fileId, thrown), <<>>)
     ELSE IF fileIdMissing(fileId)
     THEN Ended(Threw(FileDownloadError("File ID is required", fileId,
                                        Undefined)), <<userDrive>>)
     ELSE Awaits(Request(userDrive, "files.get",
                         [fileId |-> fileId, alt |-> "media"],
                         [responseType |-> "stream"]), <<userDrive>>)

\* downloadFileFromUserDrive, to its first await
downloadFileFromUserDrive(moduleOptions, fileId, userOptions, id, thrown) ==
  IF fileIdMissing(fileId)
  THEN Ended(Threw(FileDownloadError("File ID is required", fileId,
                                     Undefined)), <<>>)
  ELSE IF thrown # NoThrow
  THEN Ended(downloadFileFromUserDriveCatch(fileId, thrown), <<>>)
  ELSE LET userDrive == createUserDriveInstance(moduleOptions,
                                                userOptions.credentials, id)
       IN Awaits(Request(userDrive, "files.get",
                         [fileId |-> fileId, alt |-> "media"],
                         [responseType |-> "stream"]), <<userDrive>>)

\* downloadFileFromUserDrive, after files.get resolved
downloadFileFromUserDriveThen(response) == Returned(response.data)

\* the catch block of getFileMetadataFromUserDrive with the 404 and 403 cases
\* of downloadFileFromUserDrive
getFileMetadataFromUserDriveCatchSpecialCased(fileId, error) ==
  downloadFileFromUserDriveCatch(fileId, error)

\* getFileMetadataFromUserDrive, the catch block
getFileMetadataFromUserDriveCatch(fileId, error) ==
  LET message == IF InstanceOf(error, "Error") THEN error.message
                 ELSE "Unknown error"
  IN Threw(FileDownloadError(message, fileId,
                             IF InstanceOf(error, "Error") THEN error
                             ELSE Undefined))

\* getFileMetadataFromUserDrive, to its first await
getFileMetadataFromUserDrive(moduleOptions, fileId, userOptions, id, thrown) ==
  IF fileIdMissing(fileId)
  THEN Ended(Threw(FileDownloadError("File ID is required", fileId,
                                     Undefined)), <<>>)
  ELSE IF thrown # NoThrow
  THEN Ended(getFileMetadataFromUserDriveCatch(fileId, thrown), <<>>)
  ELSE LET userDrive == createUserDriveInstance(moduleOptions,
                                                userOptions.credentials, id)
       IN Awaits(Request(userDrive, "files.get",
                         [fileId |-> fileId, fields |-> DEFAULT_FILE_FIELDS],
                         Undefined), <<userDrive>>)

\* getFileMetadataFromUserDrive, after files.get resolved
getFileMetadataFromUserDriveThen(response) == Returned(response.data)

\* testUserDriveConnection, the catch block
testUserDriveConnectionCatch(error) == Returned(Bool(FALSE))

\* testUserDriveConnection, to its first await
testUserDriveConnection(moduleOptions, userOptions, id, thrown) ==
  IF thrown # NoThrow
  THEN Ended(testUserDriveConnectionCatch(thrown), <<>>)
  ELSE LET userDrive == createUserDriveInstance(moduleOptions,
                                                userOptions.credentials, id)
       IN Awaits(Request(userDrive, "about.get", [fields |-> "user"],
                         Undefined), <<userDrive>>)

\* testUserDriveConnection, after about.get resolved
testUserDriveConnectionThen(response) == Returned(Bool(TRUE))

----------------------------------------------------------------------------
(* The state machine                                                       *)

\* the invocations that can be in flight
CallIds == {1}

\* the record of an invocation of `op` that ran to `step`
Begin(op, args, step) ==
  [pc |-> step.pc, op |-> op, args |-> args, built |-> step.built,
   requests |-> step.requests, settled |-> Pending,
   outcome |-> step.outcome]

\* the continuation of `op` after its remote call resolved
ThenOf(op, args, response) ==
  CASE op = "uploadFile" -> uploadFileThen(args.options, response)
    [] op = "uploadFileToUserDrive" ->
         uploadFileToUserDriveThen(args.options, response)
    [] op = "downloadFile" -> downloadFileThen(response)
    [] op = "downloadFileFromUserDrive" ->
         downloadFileFromUserDriveThen(response)
    [] op = "getFileMetadata" -> getFileMetadataThen(response)
    [] op = "getFileMetadataFromUserDrive" ->
         getFileMetadataFromUserDriveThen(response)
    [] op = "testConnection" -> testConnectionThen(response)
    [] op = "testUserDriveConnection" ->
         testUserDriveConnectionThen(response)

\* the catch block of `op` for a rejected remote call
CatchOf(op, args, error) ==
  CASE op = "uploadFile" -> uploadFileCatch(args.options, error)
    [] op = "uploadFileToUserDrive" ->
         uploadFileToUserDriveCatch(args.options, error)
    [] op = "downloadFile" -> downloadFileCatch(args.fileId, error)
    [] op = "downloadFileFromUserDrive" ->
         downloadFileFromUserDriveCatch(args.fileId, error)
    [] op = "getFileMetadata" -> getFileMetadataCatch(args.fileId, error)
    [] op = "getFileMetadataFromUserDrive" ->
         getFileMetadataFromUserDriveCatch(args.fileId, error)
    [] op = "testConnection" -> testConnectionCatch(error)
    [] op = "testUserDriveConnection" ->
         testUserDriveConnectionCatch(error)

Init ==
  /\ service = [state |-> "unconstructed", options |-> Undefined,
                drive |-> Undefined, error |-> Undefined]
  /\ calls = [c \in CallIds |-> Idle]
  /\ handlesBuilt = 0

\* new GoogleDriveService(options)
Construct(options, thrown) ==
  /\ service.state = "unconstructed"
  /\ service' = initializeDrive(options, handlesBuilt + 1, thrown)
  /\ handlesBuilt' = IF thrown = NoThrow THEN handlesBuilt + 1
                     ELSE handlesBuilt
  /\ UNCHANGED calls

\* an invocation of a module-wide operation
Invoke(c, op, args, step) ==
  /\ service.state = "ready"
  /\ calls[c].pc = "idle"
  /\ calls' = [calls EXCEPT ![c] = Begin(op, args, step)]
  /\ UNCHANGED <<service, handlesBuilt>>

\* an invocation of a per-user operation that keeps the handle it built as
\* the service's handle (this.drive = userDrive)
InvokeUserKeepingHandle(c, op, args, step) ==
  /\ service.state = "ready"
  /\ calls[c].pc = "idle"
  /\ handlesBuilt + Len(step.built) <= MaxHandles
  /\ calls' = [calls EXCEPT ![c] = Begin(op, args, step)]
  /\ handlesBuilt' = handlesBuilt + Len(step.built)
  /\ service' = IF step.built = <<>> THEN service
                ELSE [service EXCEPT !.drive = step.built[1]]

\* an invocation of a per-user operation
InvokeUser(c, op, args, step) ==
  /\ service.state = "ready"
  /\ calls[c].pc = "idle"
  /\ handlesBuilt + Len(step.built) <= MaxHandles
  /\ calls' = [calls EXCEPT ![c] = Begin(op, args, step)]
  /\ handlesBuilt' = handlesBuilt + Len(step.built)
  /\ UNCHANGED service

UploadFile(c, fileStream, options) ==
  Invoke(c, "uploadFile", [fileStream |-> fileStream, options |-> options],
         uploadFile(service.drive, fileStream, options))

DownloadFile(c, fileId) ==
  Invoke(c, "downloadFile", [fileId |-> fileId],
         downloadFile(service.drive, fileId))

GetFileMetadata(c, fileId) ==
  Invoke(c, "getFileMetadata", [fileId |-> fileId],
         getFileMetadata(service.drive, fileId))

TestConnection(c) ==
  Invoke(c, "testConnection", <<>>, testConnection(service.drive))

UploadFileToUserDrive(c, fileStream, options, userOptions, thrown) ==
  InvokeUser(c, "uploadFileToUserDrive",
             [fileStream |-> fileStream, options |-> options,
              userOptions |-> userOptions],
             uploadFileToUserDrive(service.options, fileStream, options,
                                   userOptions, handlesBuilt + 1, thrown))

DownloadFileFromUserDrive(c, fileId, userOptions, thrown) ==
  InvokeUser(c, "downloadFileFromUserDrive",
             [fileId |-> fileId, userOptions |-> userOptions],
             downloadFileFromUserDrive(service.options, fileId, userOptions,
                                       handlesBuilt + 1, thrown))

GetFileMetadataFromUserDrive(c, fileId, userOptions, thrown) ==
  InvokeUser(c, "getFileMetadataFromUserDrive",
             [fileId |-> fileId, userOptions |-> userOptions],
             getFileMetadataFromUserDrive(service.options, fileId,
                                          userOptions, handlesBuilt + 1,
                                          thrown))

TestUserDriveConnection(c, userOptions, thrown) ==
  InvokeUser(c, "testUserDriveConnection", [userOptions |-> userOptions],
             testUserDriveConnection(service.options, userOptions,
                                     handlesBuilt + 1, thrown))

\* a resolution after which the method does not go on
RemoteResolveLost(c, response) ==
  /\ calls[c].pc = "await"
  /\ response \in Responses(calls[c].requests[1])
  /\ calls' = [calls EXCEPT ![c] =
       [@ EXCEPT !.settled = [kind |-> "resolved", value |-> response]]]
  /\ UNCHANGED <<service, handlesBuilt>>

\* the awaited remote call resolves and the method runs to its end
RemoteResolve(c, response) ==
  /\ calls[c].pc = "await"
  /\ response \in Responses(calls[c].requests[1])
  /\ calls' = [calls EXCEPT ![c] =
       [@ EXCEPT !.pc = "done",
                 !.settled = [kind |-> "resolved", value |-> response],
                 !.outcome = ThenOf(calls[c].op, calls[c].args, response)]]
  /\ UNCHANGED <<service, handlesBuilt>>

\* a rejection that is answered with a second remote call
RemoteRejectRetrying(c, error) ==
  /\ calls[c].pc = "await"
  /\ calls' = [calls EXCEPT ![c] =
       [@ EXCEPT !.requests = Append(@, @[1]),
                 !.settled = [kind |-> "rejected", value |-> error]]]
  /\ UNCHANGED <<service, handlesBuilt>>

\* the awaited remote call rejects and the catch block runs
RemoteReject(c, error) ==
  /\ calls[c].pc = "await"
  /\ calls' = [calls EXCEPT ![c] =
       [@ EXCEPT !.pc = "done",
                 !.settled = [kind |-> "rejected", value |-> error],
                 !.outcome = CatchOf(calls[c].op, calls[c].args, error)]]
  /\ UNCHANGED <<service, handlesBuilt>>

\* the caller takes the outcome of a finished invocation
Complete(c) ==
  /\ calls[c].pc = "done"
  /\ calls' = [calls EXCEPT ![c] = Idle]
  /\ UNCHANGED <<service, handlesBuilt>>

AllResponses ==
  {[data |-> d] : d \in FileResources \cup RemoteStreams}
    \cup {[data |-> [user |-> "me"]]}

Next ==
  \/ \E options \in ModuleOptions, thrown \in {NoThrow} \cup BuildThrows :
       Construct(options, thrown)
  \/ \E c \in CallIds, fileStream \in FileStreams, options \in UploadOptions :
       UploadFile(c, fileStream, options)
  \/ \E c \in CallIds, fileId \in FileIds : DownloadFile(c, fileId)
  \/ \E c \in CallIds, fileId \in FileIds : GetFileMetadata(c, fileId)
  \/ \E c \in CallIds : TestConnection(c)
  \/ \E c \in CallIds, fileStream \in FileStreams, options \in UploadOptions,
        userOptions \in UserOptions, thrown \in {NoThrow} \cup BuildThrows :
       UploadFileToUserDrive(c, fileStream, options, userOptions, thrown)
  \/ \E c \in CallIds, fileId \in FileIds, userOptions \in UserOptions,
        thrown \in {NoThrow} \cup BuildThrows :
       DownloadFileFromUserDrive(c, fileId, userOptions, thrown)
  \/ \E c \in CallIds, fileId \in FileIds, userOptions \in UserOptions,
        thrown \in {NoThrow} \cup BuildThrows :
       GetFileMetadataFromUserDrive(c, fileId, userOptions, thrown)
  \/ \E c \in CallIds, userOptions \in UserOptions,
        thrown \in {NoThrow} \cup BuildThrows :
       TestUserDriveConnection(c, userOptions, thrown)
  \/ \E c \in CallIds, response \in AllResponses : RemoteResolve(c, response)
  \/ \E c \in CallIds, error \in Rejections : RemoteReject(c, error)
  \/ \E c \in CallIds : Complete(c)

Spec == Init /\ [][Next]_vars

\* the remote call of the invocation in slot c settles
Settle(c) ==
  \/ \E response \in AllResponses : RemoteResolve(c, response)
  \/ \E error \in Rejections : RemoteReject(c, error)

\* the service with every awaited remote call settling in the end
SpecLive == Init /\ [][Next]_vars /\ \A c \in CallIds : WF_vars(Settle(c))

----------------------------------------------------------------------------
(* Two invocations in flight at once: the methods are async, so a second   *)
(* call can start while the first awaits its remote call.                  *)

ConcIds == {1, 2}

\* the file id of the concurrent invocations
ConcFileIds == { <<"i","d","1">> }

\* what the remote calls of the concurrent invocations reject with
ConcRejections ==
  { LibError("Forbidden", TRUE, Num(403)), PlainObject("gone", TRUE, Num(404)) }

InitConc ==
  /\ service = [state |-> "unconstructed", options |-> Undefined,
                drive |-> Undefined, error |-> Undefined]
  /\ calls = [c \in ConcIds |-> Idle]
  /\ handlesBuilt = 0

NextConc ==
  \/ \E options \in ModuleOptions : Construct(options, NoThrow)
  \/ \E c \in ConcIds, fileId \in ConcFileIds : DownloadFile(c, fileId)
  \/ \E c \in ConcIds : TestConnection(c)
  \/ \E c \in ConcIds, fileId \in ConcFileIds, userOptions \in UserOptions :
       DownloadFileFromUserDrive(c, fileId, userOptions, NoThrow)
  \/ \E c \in ConcIds, userOptions \in UserOptions :
       TestUserDriveConnection(c, userOptions, NoThrow)
  \/ \E c \in ConcIds, response \in AllResponses : RemoteResolve(c, response)
  \/ \E c \in ConcIds, error \in ConcRejections : RemoteReject(c, error)
  \/ \E c \in ConcIds : Complete(c)

SpecConc == InitConc /\ [][NextConc]_vars

----------------------------------------------------------------------------
(* The exported file utilities, called on their own                        *)

\* the longest generated file name
MaxNameLen == 3

ToUpperChar(c) ==
  IF \E i \in 1..26 : LowerCase[i] = c
  THEN UpperCase[CHOOSE i \in 1..26 : LowerCase[i] = c]
  ELSE c

\* String.prototype.toUpperCase
ToUpperCase(s) == [i \in 1..Len(s) |-> ToUpperChar(s[i])]

\* every way of writing `s` in upper and lower case
CaseVariants(s) ==
  { [i \in 1..Len(s) |-> IF i \in U THEN ToUpperChar(s[i]) ELSE s[i]] :
      U \in SUBSET (1..Len(s)) }

\* the characters of the generated names
NameAlphabet == invalidChars \cup {" ", "\t", "a", "."}

\* every name of at most MaxNameLen characters of NameAlphabet
GeneratedNames == UNION {[1..n -> NameAlphabet] : n \in 0..MaxNameLen}

\* extensions: the keys of mimeTypes, the inherited property names and two
\* unknown ones, in every mix of case
Extensions ==
  UNION {CaseVariants(e[1]) : e \in mimeTypes}
    \cup UNION {CaseVariants(key) :
                  key \in {<<"x","y","z">>, <<"p","d">>,
                         <<"_","_","p","r","o","t","o","_","_">>}}
    \cup { <<"c","o","n","s","t","r","u","c","t","o","r">>,
           <<"C","o","n","s","t","r","u","c","t","o","r">>,
           <<"C","O","N","S","T","R","U","C","T","O","R">> }

\* names with an extension, and names that are only an extension's text
ExtensionNames ==
  { base \o <<".">> \o x : base \in {<<"a">>, <<"A",".","b">>, <<>>},
                           x \in Extensions }
    \cup Extensions
    \cup { <<"f","i","l","e","n","a","m","e">>, <<"R","E","A","D","M","E">>,
           <<"a",".","p","d","f",".">> }

\* the fileName argument of the utilities
UtilFileNames == GeneratedNames \cup ExtensionNames

\* a call of a utility: it returns `value` at once
UtilCall(c, op, args, value) ==
  /\ calls[c].pc = "idle"
  /\ calls' = [calls EXCEPT ![c] =
       Begin(op, args, Ended(Returned(value), <<>>))]
  /\ UNCHANGED <<service, handlesBuilt>>

ValidateFileName(c, fileName) ==
  UtilCall(c, "validateFileName", [fileName |-> fileName],
           Bool(validateFileName(fileName)))

GetMimeTypeFromExtension(c, fileName) ==
  UtilCall(c, "getMimeTypeFromExtension", [fileName |-> fileName],
           getMimeTypeFromExtension(fileName))

\* the largest byte count of the consecutive range of sizes
MaxSize == 1100

\* the largest power of 1024 a size is scaled by
MaxScale == 5

\* mantissas beyond the consecutive range
OtherSizes ==
  {1536, 2047, 2048, 2560, 10240, 1048575, 1048576, 1048577, 1572864}

\* the decimal digits of a non-negative integer, as characters
RECURSIVE DigitsOf(_)
DigitsOf(n) ==
  IF n < 10 THEN <<DecimalDigits[n + 1]>>
  ELSE Append(DigitsOf(n \div 10), DecimalDigits[(n % 10) + 1])

\* the bytes argument of formatFileSize: numbers, their decimal strings, and
\* strings that are no plain decimal number
SizeInputs ==
  { SizeNumber(m, e) : m \in (0..MaxSize) \cup OtherSizes, e \in 0..MaxScale }
    \cup { SizeString(DigitsOf(n)) : n \in (0..MaxSize) \cup OtherSizes }
    \cup { SizeString(s) :
             s \in { <<>>, <<"a","b","c">>, <<"1","2","p","x">>,
                     <<" ","4","2">>, <<"-","5">>, <<"+","7">>,
                     <<"0","1","0">>, <<"1","e","3">>, <<"1",".","5">>,
                     <<"1","0","2","4"," ">> } }

FormatFileSize(c, bytes) ==
  UtilCall(c, "formatFileSize", [bytes |-> bytes], formatFileSize(bytes))

NextUtil ==
  \/ \E c \in CallIds :
       /\ calls[c].pc = "idle"
       /\ \E fileName \in UtilFileNames : ValidateFileName(c, fileName)
  \/ \E c \in CallIds :
       /\ calls[c].pc = "idle"
       /\ \E fileName \in UtilFileNames :
            GetMimeTypeFromExtension(c, fileName)
  \/ \E c \in CallIds :
       /\ calls[c].pc = "idle"
       /\ \E bytes \in SizeInputs : FormatFileSize(c, bytes)
  \/ \E c \in CallIds : Complete(c)

SpecUtil == Init /\ [][NextUtil]_vars

----------------------------------------------------------------------------
(* src/unnamed/part_003 : GoogleDriveModule, the registration functions    *)

\* export const GOOGLE_DRIVE_OPTIONS
GOOGLE_DRIVE_OPTIONS == "GOOGLE_DRIVE_OPTIONS"

\* an array value
Array(items) == [t |-> "object", items |-> items]

\* a class used as a provider or as an export
ClassRef(name) == [t |-> "function", class |-> name]

\* GoogleDriveModule.forRoot
forRoot(options) ==
  LET optionsProvider == [provide |-> GOOGLE_DRIVE_OPTIONS,
                          useValue |-> options]
  IN [module |-> ClassRef("GoogleDriveModule"),
      providers |-> <<optionsProvider, ClassRef("GoogleDriveService")>>,
      exports |-> <<ClassRef("GoogleDriveService")>>,
      global |-> FALSE]

\* GoogleDriveModule.forRootAsync
forRootAsync(options) ==
  LET optionsProvider == [provide |-> GOOGLE_DRIVE_OPTIONS,
                          useFactory |-> options.useFactory,
                          inject |-> OrElse(options.inject, Array(<<>>))]
  IN [module |-> ClassRef("GoogleDriveModule"),
      imports |-> OrElse(options.imports, Array(<<>>)),
      providers |-> <<optionsProvider, ClassRef("GoogleDriveService")>>,
      exports |-> <<ClassRef("GoogleDriveService")>>,
      global |-> FALSE]

\* GoogleDriveModule.forRootGlobal : { ...this.forRoot(options), global: true }
forRootGlobal(options) == [forRoot(options) EXCEPT !.global = TRUE]

\* forRootAsyncGlobal that hands on the scoped registration as it is
forRootAsyncGlobalScoped(options) == forRootAsync(options)

\* GoogleDriveModule.forRootAsyncGlobal
forRootAsyncGlobal(options) == [forRootAsync(options) EXCEPT !.global = TRUE]

\* GoogleDriveModuleAsyncOptions
AsyncOptions ==
  { [useFactory |-> [t |-> "function", id |-> f], inject |-> i,
     imports |-> m] :
      f \in {"factory-1", "factory-2", "factory-3", "factory-4"},
      i \in {Undefined, Array(<<>>), Array(<<"ConfigService">>),
             Array(<<"ConfigService", "Logger">>)},
      m \in {Undefined, Array(<<>>), Array(<<"ConfigModule">>),
             Array(<<"ConfigModule", "LogModule">>)} }

ForRoot(c, options) ==
  UtilCall(c, "forRoot", [options |-> options], forRoot(options))

ForRootAsync(c, options) ==
  UtilCall(c, "forRootAsync", [options |-> options], forRootAsync(options))

ForRootGlobal(c, options) ==
  UtilCall(c, "forRootGlobal", [options |-> options], forRootGlobal(options))

ForRootAsyncGlobal(c, options) ==
  UtilCall(c, "forRootAsyncGlobal", [options |-> options],
           forRootAsyncGlobal(options))

NextModule ==
  \/ \E c \in CallIds, options \in ModuleOptions : ForRoot(c, options)
  \/ \E c \in CallIds, options \in AsyncOptions : ForRootAsync(c, options)
  \/ \E c \in CallIds, options \in ModuleOptions : ForRootGlobal(c, options)
  \/ \E c \in CallIds, options \in AsyncOptions :
       ForRootAsyncGlobal(c, options)
  \/ \E c \in CallIds : Complete(c)

SpecModule == Init /\ [][NextModule]_vars

----------------------------------------------------------------------------
(* Properties                                                              *)

UploadOps == {"uploadFile", "uploadFileToUserDrive"}
DownloadOps == {"downloadFile", "downloadFileFromUserDrive"}
MetadataOps == {"getFileMetadata", "getFileMetadataFromUserDrive"}
ConnectionOps == {"testConnection", "testUserDriveConnection"}

\* the invocation in slot c has started
Started(c) == calls[c].pc # "idle"

\* the invocation in slot c has ended
Finished(c) == calls[c].pc = "done"

\* the remote call of the invocation in slot c was rejected
Rejected(c) == Finished(c) /\ calls[c].settled.kind = "rejected"

\* the remote call of the invocation in slot c resolved
Resolved(c) == Finished(c) /\ calls[c].settled.kind = "resolved"

\* the invocation in slot c rejected with an error of class C
ThrewA(c, C) ==
  /\ Finished(c)
  /\ calls[c].outcome.kind = "throw"
  /\ InstanceOf(calls[c].outcome.value, C)

\* the numeric code of a rejected value, 0 when it has none or it is no number
NumericCode(e) ==
  IF e.t = "object" /\ e.hasCode /\ e.code.t = "number" THEN e.code.n ELSE 0

\* an id that is empty or made of white space only
BlankId(fileId) == \A i \in 1..Len(fileId) : fileId[i] \in {" ", "\t", "\n"}

\* C1: an upload (module-wide or per-user) whose file name fails
\* validateFileName has ended, rejected with a FileUploadError, and has issued
\* no remote call, whatever its content and other options.
C1_InvalidNameRejected ==
  \A c \in DOMAIN calls :
    (Started(c) /\ calls[c].op \in UploadOps
       /\ ~validateFileName(calls[c].args.options.name))
    => /\ ThrewA(c, "FileUploadError")
       /\ calls[c].requests = <<>>

C1_Witness ==
  \E c \in DOMAIN calls :
    /\ Finished(c)
    /\ calls[c].op = "uploadFileToUserDrive"
    /\ calls[c].args.options.name = <<"a","<","b",".","t","x","t">>
    /\ calls[c].args.options.mimeType = Str("image/png")
    /\ calls[c].outcome.kind = "throw"

\* C2: a rejected remote get of downloadFile or downloadFileFromUserDrive
\* surfaces as a FileDownloadError when its code is 404, as an
\* AuthenticationError when its code is 403, and as a FileDownloadError for
\* any other code or no code.
C2_DownloadErrorMapping ==
  \A c \in DOMAIN calls :
    (Rejected(c) /\ calls[c].op \in DownloadOps)
    => LET code == NumericCode(calls[c].settled.value)
       IN /\ code = 404 => ThrewA(c, "FileDownloadError")
          /\ code = 403 => ThrewA(c, "AuthenticationError")
          /\ code \notin {404, 403} => ThrewA(c, "FileDownloadError")

C2_Witness ==
  \E c \in DOMAIN calls :
    /\ Rejected(c)
    /\ calls[c].op = "downloadFile"
    /\ NumericCode(calls[c].settled.value) = 403
    /\ ThrewA(c, "AuthenticationError")

\* C3 as stated: whatever value the remote call rejected with, the error the
\* operation rejects with has that value as its cause.
C3_CauseIsRejectedValue ==
  \A c \in DOMAIN calls :
    (Rejected(c) /\ calls[c].op \in UploadOps \cup DownloadOps \cup MetadataOps)
    => calls[c].outcome.value.cause = calls[c].settled.value

\* C3 amended: the error the operation rejects with has the rejected value as
\* its cause when that value is an Error, and has no cause (undefined) when
\* the remote call rejected with a value that is not an Error.
C3_CauseIsRejectedError ==
  \A c \in DOMAIN calls :
    (Rejected(c) /\ calls[c].op \in UploadOps \cup DownloadOps \cup MetadataOps)
    => LET e == calls[c].settled.value
       IN /\ calls[c].outcome.kind = "throw"
          /\ (e.t = "object" /\ "Error" \in e.protos)
               => calls[c].outcome.value.cause = e
          /\ ~(e.t = "object" /\ "Error" \in e.protos)
               => calls[c].outcome.value.cause = Undefined

C3_Witness ==
  \E c \in DOMAIN calls :
    /\ Rejected(c)
    /\ calls[c].op = "uploadFile"
    /\ calls[c].settled.value.t = "object"
    /\ "Error" \in calls[c].settled.value.protos
    /\ calls[c].outcome.value.cause = calls[c].settled.value

\* C4: a download or metadata operation (module-wide or per-user) whose id is
\* empty or whitespace-only has ended, rejected with a FileDownloadError, and
\* has issued no remote call.
C4_BlankIdRejected ==
  \A c \in DOMAIN calls :
    (Started(c) /\ calls[c].op \in DownloadOps \cup MetadataOps
       /\ BlankId(calls[c].args.fileId))
    => /\ ThrewA(c, "FileDownloadError")
       /\ calls[c].requests = <<>>

C4_Witness ==
  \E c \in DOMAIN calls :
    /\ Finished(c)
    /\ calls[c].op = "getFileMetadataFromUserDrive"
    /\ calls[c].args.fileId = <<" "," "," ">>
    /\ ThrewA(c, "FileDownloadError")

\* what C5 requires of the create request `r` of an upload with `options`
CreateRequestAsSpecified(r, options) ==
  /\ r.api = "files.create"
  /\ r.params.media.mimeType =
       (IF options.mimeType.t = "string" /\ options.mimeType.s # ""
        THEN options.mimeType
        ELSE getMimeTypeFromExtension(options.name))
  /\ r.params.requestBody.name = options.name
  /\ r.params.requestBody.parents = options.parents
  /\ r.params.fields = "id,name,mimeType,size,parents,createdTime,modifiedTime"

\* C5: for a valid file name uploadFile issues the remote create call with the
\* caller's MIME type when one is given (non-empty) and with
\* getMimeTypeFromExtension(name) otherwise, with the name, the caller's
\* parents and the fixed field set; every create call of the per-user upload
\* has the same shape.
C5_CreateRequest ==
  \A c \in DOMAIN calls :
    /\ (Started(c) /\ calls[c].op = "uploadFile"
          /\ validateFileName(calls[c].args.options.name))
       => /\ Len(calls[c].requests) = 1
          /\ CreateRequestAsSpecified(calls[c].requests[1],
                                      calls[c].args.options)
    /\ (Started(c) /\ calls[c].op = "uploadFileToUserDrive")
       => \A i \in 1..Len(calls[c].requests) :
            CreateRequestAsSpecified(calls[c].requests[i],
                                     calls[c].args.options)

C5_Witness ==
  \E c \in DOMAIN calls :
    /\ calls[c].pc = "await"
    /\ calls[c].op = "uploadFile"
    /\ calls[c].args.options.name = <<"N",".","T","X","T">>
    /\ calls[c].args.options.mimeType = Str("")
    /\ calls[c].requests[1].params.media.mimeType = Str("text/plain")

\* C6: when the remote create call resolved, the upload returns the fields of
\* the response data, unchanged, plus downloadUrl =
\* 'https://drive.google.com/file/d/' + id + '/view'.
C6_UploadResult ==
  \A c \in DOMAIN calls :
    (Resolved(c) /\ calls[c].op \in UploadOps)
    => LET data == calls[c].settled.value.data
           result == calls[c].outcome.value
       IN /\ calls[c].outcome.kind = "return"
          /\ DOMAIN result = DOMAIN data \cup {"downloadUrl"}
          /\ \A f \in DOMAIN data : result[f] = data[f]
          /\ result.downloadUrl =
               "https://drive.google.com/file/d/" \o data.id \o "/view"

C6_Witness ==
  \E c \in DOMAIN calls :
    /\ Resolved(c)
    /\ calls[c].op = "uploadFile"
    /\ calls[c].settled.value.data.id = "X"
    /\ calls[c].outcome.value.downloadUrl
         = "https://drive.google.com/file/d/X/view"

\* C7: an upload (module-wide or per-user) with a valid file name whose remote
\* create call failed rejects with a FileUploadError that carries the file
\* name of the attempted upload.
C7_UploadErrorCarriesName ==
  \A c \in DOMAIN calls :
    (Rejected(c) /\ calls[c].op \in UploadOps)
    => /\ validateFileName(calls[c].args.options.name)
       /\ ThrewA(c, "FileUploadError")
       /\ calls[c].outcome.value.fileName = calls[c].args.options.name

C7_Witness ==
  \E c \in DOMAIN calls :
    /\ Rejected(c)
    /\ calls[c].op = "uploadFileToUserDrive"
    /\ calls[c].settled.value = Null
    /\ calls[c].outcome.value.fileName = <<"n","o","t","e","s">>

\* C8: a metadata operation (module-wide or per-user) with a non-empty id
\* whose remote get call failed rejects with a FileDownloadError carrying the
\* file id, also when the failure has code 404 or 403: never with an
\* AuthenticationError.
C8_MetadataErrorNotSpecialCased ==
  \A c \in DOMAIN calls :
    (Rejected(c) /\ calls[c].op \in MetadataOps)
    => /\ ~BlankId(calls[c].args.fileId)
       /\ ThrewA(c, "FileDownloadError")
       /\ ~ThrewA(c, "AuthenticationError")
       /\ calls[c].outcome.value.fileId = calls[c].args.fileId

C8_Witness ==
  \E c \in DOMAIN calls :
    /\ Rejected(c)
    /\ calls[c].op = "getFileMetadata"
    /\ NumericCode(calls[c].settled.value) = 403
    /\ ThrewA(c, "FileDownloadError")

\* C9: testConnection and testUserDriveConnection never raise: a finished
\* connection test has returned a boolean, true exactly when the identity call
\* resolved and false when it rejected, whatever it rejected with.
C9_ConnectionTestIsBoolean ==
  \A c \in DOMAIN calls :
    (Finished(c) /\ calls[c].op \in ConnectionOps)
    => /\ calls[c].outcome.kind = "return"
       /\ calls[c].outcome.value.t = "boolean"
       /\ calls[c].outcome.value.b = (calls[c].settled.kind = "resolved")
       /\ calls[c].settled.kind = "rejected" => ~calls[c].outcome.value.b

C9_Witness ==
  \E c \in DOMAIN calls :
    /\ Rejected(c)
    /\ calls[c].op = "testConnection"
    /\ calls[c].settled.value = Str("timeout")
    /\ calls[c].outcome = Returned(Bool(FALSE))

\* C10: every rejection of an upload, download or metadata operation
\* (module-wide or per-user) is a FileUploadError, a FileDownloadError or an
\* AuthenticationError, and is never the raw value the remote call rejected
\* with.
C10_OnlyTaxonomyErrors ==
  \A c \in DOMAIN calls :
    (Finished(c) /\ calls[c].outcome.kind = "throw"
       /\ calls[c].op \in UploadOps \cup DownloadOps \cup MetadataOps)
    => /\ \/ ThrewA(c, "FileUploadError")
          \/ ThrewA(c, "FileDownloadError")
          \/ ThrewA(c, "AuthenticationError")
       /\ calls[c].settled.kind = "rejected"
            => calls[c].outcome.value # calls[c].settled.value

C10_Witness ==
  \E c \in DOMAIN calls :
    /\ Rejected(c)
    /\ calls[c].op = "downloadFileFromUserDrive"
    /\ calls[c].settled.value = LibError("Backend error", TRUE, Num(500))
    /\ ThrewA(c, "FileDownloadError")
    /\ calls[c].outcome.value.code = Str("FILE_DOWNLOAD_ERROR")

ServiceOps == UploadOps \cup DownloadOps \cup MetadataOps \cup ConnectionOps
UserOps ==
  {"uploadFileToUserDrive", "downloadFileFromUserDrive",
   "getFileMetadataFromUserDrive", "testUserDriveConnection"}

\* the credentials construction puts on the long-lived handle for `options`
ConstructionCredentials(options) ==
  IF options.refreshToken.t = "string" /\ options.refreshToken.s # ""
  THEN [isSet |-> TRUE, refresh_token |-> options.refreshToken,
        access_token |-> options.accessToken]
  ELSE [isSet |-> FALSE, refresh_token |-> Undefined,
        access_token |-> Undefined]

\* C11: whatever operations have run, the long-lived handle of a constructed
\* service is the first handle built, with the credentials construction gave
\* it; a per-user operation issues its request on a handle of its own, never
\* on the long-lived one.
C11_LongLivedHandleUntouched ==
  service.state = "ready"
  => /\ service.drive.id = 1
     /\ service.drive.auth.credentials
          = ConstructionCredentials(service.options)
     /\ \A c \in DOMAIN calls :
          (Started(c) /\ calls[c].op \in UserOps)
          => \A i \in 1..Len(calls[c].requests) :
               /\ calls[c].requests[i].drive # service.drive
               /\ calls[c].requests[i].drive.id # service.drive.id

C11_Witness ==
  /\ service.state = "ready"
  /\ handlesBuilt = 3
  /\ \E c \in DOMAIN calls :
       /\ Rejected(c)
       /\ calls[c].op = "uploadFileToUserDrive"
       /\ calls[c].requests[1].drive.id = 3

\* the module-wide operation a per-user operation corresponds to
Counterpart(op) ==
  CASE op = "uploadFileToUserDrive" -> "uploadFile"
    [] op = "downloadFileFromUserDrive" -> "downloadFile"
    [] op = "getFileMetadataFromUserDrive" -> "getFileMetadata"
    [] op = "testUserDriveConnection" -> "testConnection"

\* the module-wide counterpart of the per-user invocation `call`, run on the
\* same arguments to its first await
CounterpartStart(call) ==
  CASE call.op = "uploadFileToUserDrive" ->
         uploadFile(service.drive, call.args.fileStream, call.args.options)
    [] call.op = "downloadFileFromUserDrive" ->
         downloadFile(service.drive, call.args.fileId)
    [] call.op = "getFileMetadataFromUserDrive" ->
         getFileMetadata(service.drive, call.args.fileId)
    [] call.op = "testUserDriveConnection" -> testConnection(service.drive)

\* the label the per-user download adds to the message of a 404 or 403
UserDriveLabel(call) ==
  IF call.op = "downloadFileFromUserDrive" /\ call.settled.kind = "rejected"
  THEN CASE NumericCode(call.settled.value) = 404 -> " in user drive"
         [] NumericCode(call.settled.value) = 403 -> " to user drive"
         [] OTHER -> ""
  ELSE ""

\* the per-user outcome is the module-wide one, up to the message label
SameOutcome(user, module, label) ==
  /\ user.kind = module.kind
  /\ user.kind = "return" => user.value = module.value
  /\ user.kind = "throw"
       => user.value = [module.value EXCEPT !.message = @ \o label]

\* C12: a per-user operation has the contract of its module-wide counterpart:
\* on the same arguments it fails validation with the same error, issues the
\* same remote request, and for the same remote response or failure yields
\* the same value or the same error (class, code, file name or id, cause),
\* the message of a 404 or 403 download failure being labelled
\* ' in user drive' / ' to user drive'.
C12_UserVariantsSameContract ==
  \A c \in DOMAIN calls :
    (Started(c) /\ calls[c].op \in UserOps)
    => LET call == calls[c]
           twin == CounterpartStart(call)
       IN /\ twin.pc = "done"
               => /\ call.pc = "done"
                  /\ call.requests = <<>>
                  /\ SameOutcome(call.outcome, twin.outcome, "")
          /\ call.requests # <<>>
               => /\ twin.pc = "await"
                  /\ call.requests[1].api = twin.requests[1].api
                  /\ call.requests[1].params = twin.requests[1].params
                  /\ call.requests[1].options = twin.requests[1].options
          /\ Resolved(c)
               => SameOutcome(call.outcome,
                              ThenOf(Counterpart(call.op), call.args,
                                     call.settled.value), "")
          /\ Rejected(c)
               => SameOutcome(call.outcome,
                              CatchOf(Counterpart(call.op), call.args,
                                      call.settled.value),
                              UserDriveLabel(call))

C12_Witness ==
  \E c \in DOMAIN calls :
    /\ Rejected(c)
    /\ calls[c].op = "downloadFileFromUserDrive"
    /\ NumericCode(calls[c].settled.value) = 404
    /\ calls[c].outcome.value.message
         = "File download failed: File not found in user drive"
    /\ downloadFileCatch(calls[c].args.fileId, calls[c].settled.value)
         .value.message = "File download failed: File not found"

\* the utility `op` was called in slot c and has returned
UtilReturned(c, op) ==
  Finished(c) /\ calls[c].op = op /\ calls[c].outcome.kind = "return"

\* C13: validateFileName returns false for every name that contains one of
\* < > : " / \ | ? * or that is empty or white space only, and true for every
\* other name.
C13_ValidateFileName ==
  \A c \in DOMAIN calls :
    UtilReturned(c, "validateFileName")
    => LET name == calls[c].args.fileName
           hasInvalid ==
             \E i \in 1..Len(name) :
               name[i] \in {"<", ">", ":", "\"", "/", "\\", "|", "?", "*"}
           blank == \A i \in 1..Len(name) : name[i] \in {" ", "\t", "\n"}
       IN calls[c].outcome.value = Bool(~(hasInvalid \/ blank))

C13_Witness ==
  \E c \in DOMAIN calls :
    /\ UtilReturned(c, "validateFileName")
    /\ calls[c].args.fileName = <<" ", "\t">>
    /\ calls[c].outcome.value = Bool(FALSE)

\* the text after the last '.' of a name that has one
ExtensionOf(name) ==
  LET dots == {i \in 1..Len(name) : name[i] = "."}
  IN SubSeq(name, SetMax(dots) + 1, Len(name))

HasDot(name) == \E i \in 1..Len(name) : name[i] = "."

\* the keys of the extension table
TableKeys == {e[1] : e \in mimeTypes}

\* C14 as stated: getMimeTypeFromExtension returns
\* 'application/octet-stream' for every name whose extension is not in the
\* extension table and for every name without an extension (no '.', or
\* nothing after the last '.').
C14_DefaultForUnknownOrMissing ==
  \A c \in DOMAIN calls :
    UtilReturned(c, "getMimeTypeFromExtension")
    => LET name == calls[c].args.fileName
       IN (\/ ~HasDot(name)
           \/ ExtensionOf(name) = <<>>
           \/ ToLowerCase(ExtensionOf(name)) \notin TableKeys)
          => calls[c].outcome.value = Str("application/octet-stream")

\* C15: for a name whose extension (the text after the last '.') is a key of
\* the table in any mix of case, getMimeTypeFromExtension returns the value
\* the table has for the lower-cased extension; and for every name, writing
\* the name in lower or in upper case gives the same result.
C15_CaseInsensitiveLookup ==
  \A c \in DOMAIN calls :
    UtilReturned(c, "getMimeTypeFromExtension")
    => LET name == calls[c].args.fileName
           value == calls[c].outcome.value
       IN /\ (HasDot(name) /\ ToLowerCase(ExtensionOf(name)) \in TableKeys)
               => \E e \in mimeTypes :
                    /\ e[1] = ToLowerCase(ExtensionOf(name))
                    /\ value = Str(e[2])
          /\ value = getMimeTypeFromExtension(ToLowerCase(name))
          /\ value = getMimeTypeFromExtension(ToUpperCase(name))

C15_Witness ==
  \E c \in DOMAIN calls :
    /\ UtilReturned(c, "getMimeTypeFromExtension")
    /\ calls[c].args.fileName = <<"A",".","b",".","D","o","C","x">>
    /\ calls[c].outcome.value = Str(
         "application/vnd.openxmlformats-officedocument.wordprocessingml.document")

\* C16: a constructed service without a client handle is a failed
\* construction whose error is a ConfigurationError (code
\* CONFIGURATION_ERROR); a construction during which no handle was built has
\* failed in that way; and no operation ever runs on a failed construction
\* or with an unset handle.
C16_ConstructionFailsFatally ==
  /\ (service.state # "unconstructed"
      /\ (service.drive = Undefined \/ handlesBuilt = 0))
       => /\ service.state = "failed"
          /\ service.drive = Undefined
          /\ InstanceOf(service.error, "ConfigurationError")
          /\ service.error.code = Str("CONFIGURATION_ERROR")
  /\ service.state = "failed" => \A c \in DOMAIN calls : ~Started(c)
  /\ \A c \in DOMAIN calls :
       (Started(c) /\ calls[c].op \in ServiceOps)
       => service.state = "ready" /\ service.drive # Undefined

C16_Witness ==
  /\ service.state = "failed"
  /\ service.drive = Undefined
  /\ service.error = ConfigurationError("invalid client options")

\* the outcome of an operation whose remote call failed
FailureOutcome(call) ==
  IF call.op \in ConnectionOps
  THEN call.outcome = Returned(Bool(FALSE))
  ELSE /\ call.outcome.kind = "throw"
       /\ InstanceOf(call.outcome.value, "GoogleDriveError")

\* C17: an invocation never has more than one remote call; once its remote
\* call has failed the invocation has ended with its failure outcome
\* (a taxonomy error, false for the connection tests) and that one call is
\* the only one it issued.
C17_OneRemoteCallNoRetry ==
  \A c \in DOMAIN calls :
    /\ Len(calls[c].requests) <= 1
    /\ calls[c].settled.kind = "rejected"
         => /\ calls[c].pc = "done"
            /\ Len(calls[c].requests) = 1
            /\ FailureOutcome(calls[c])

C17_Witness ==
  \E c \in DOMAIN calls :
    /\ Rejected(c)
    /\ calls[c].op = "uploadFile"
    /\ Len(calls[c].requests) = 1
    /\ ThrewA(c, "FileUploadError")

\* C18: a download or metadata read (module-wide or per-user) whose remote
\* get call resolved returns the very value the response carries as data:
\* the remote stream for a download, the remote resource for a metadata read.
C18_ReturnsRemoteDataVerbatim ==
  \A c \in DOMAIN calls :
    (Resolved(c) /\ calls[c].op \in DownloadOps \cup MetadataOps)
    => calls[c].outcome = Returned(calls[c].settled.value.data)

C18_Witness ==
  /\ \E c \in DOMAIN calls :
       /\ Resolved(c)
       /\ calls[c].op = "downloadFile"
       /\ calls[c].outcome.kind = "return"
       /\ calls[c].outcome.value \in RemoteStreams

\* the machine code of each kind of error
CodeOfKind ==
  [FileUploadError |-> "FILE_UPLOAD_ERROR",
   FileDownloadError |-> "FILE_DOWNLOAD_ERROR",
   AuthenticationError |-> "AUTHENTICATION_ERROR",
   ConfigurationError |-> "CONFIGURATION_ERROR"]

\* the errors raised so far: what construction threw and what the
\* invocations rejected with
Raised ==
  {calls[c].outcome.value :
     c \in {d \in DOMAIN calls : calls[d].outcome.kind = "throw"}}
    \cup (IF service.error = Undefined THEN {} ELSE {service.error})

\* C19: every error raised by construction or by an operation is an instance
\* of GoogleDriveError, and an error of kind FileUploadError,
\* FileDownloadError, AuthenticationError or ConfigurationError has that name
\* as its tag and the machine code of that kind.
C19_ErrorsCarryCodeAndTag ==
  \A e \in Raised :
    /\ InstanceOf(e, "GoogleDriveError")
    /\ \E kind \in DOMAIN CodeOfKind : InstanceOf(e, kind)
    /\ \A kind \in DOMAIN CodeOfKind :
         InstanceOf(e, kind)
         => e.name = kind /\ e.code = Str(CodeOfKind[kind])

C19_Witness ==
  \E c \in DOMAIN calls :
    /\ ThrewA(c, "AuthenticationError")
    /\ calls[c].outcome.value.name = "AuthenticationError"
    /\ calls[c].outcome.value.code = Str("AUTHENTICATION_ERROR")

\* the number written (m, e) is 1024 to the power p
IsPowerOf1024(size, p) ==
  \/ size.m = 1 /\ size.e = p
  \/ size.m = 1024 /\ size.e + 1 = p
  \/ size.m = 1048576 /\ size.e + 2 = p

\* C20: for a number argument, formatFileSize returns '0 Bytes' for 0,
\* the decimal numeral of n followed by ' Bytes' for an integer n with
\* 0 < n < 1024, and '1 KB', '1 MB', '1 GB', '1 TB' for 1024, 1024^2, 1024^3
\* and 1024^4.
C20_FormatFileSize ==
  \A c \in DOMAIN calls :
    (UtilReturned(c, "formatFileSize") /\ calls[c].args.bytes.t = "number")
    => LET bytes == calls[c].args.bytes
           value == calls[c].outcome.value
       IN /\ bytes.m = 0 => value = Str("0 Bytes")
          /\ (bytes.e = 0 /\ 0 < bytes.m /\ bytes.m < 1024)
               => value = Str(ToString(bytes.m) \o " Bytes")
          /\ IsPowerOf1024(bytes, 1) => value = Str("1 KB")
          /\ IsPowerOf1024(bytes, 2) => value = Str("1 MB")
          /\ IsPowerOf1024(bytes, 3) => value = Str("1 GB")
          /\ IsPowerOf1024(bytes, 4) => value = Str("1 TB")

C20_Witness ==
  \E c \in DOMAIN calls :
    /\ UtilReturned(c, "formatFileSize")
    /\ calls[c].args.bytes = SizeNumber(1048576, 2)
    /\ calls[c].outcome.value = Str("1 TB")

\* C21: formatFileSize called with the decimal string of a non-negative
\* integer n returns the text that formatFileSize returns for the number n.
C21_NumericStringAsNumber ==
  \A c \in DOMAIN calls :
    (UtilReturned(c, "formatFileSize") /\ calls[c].args.bytes.t = "string")
    => \A n \in (0..MaxSize) \cup OtherSizes :
         DigitsOf(n) = calls[c].args.bytes.chars
         => calls[c].outcome.value = formatFileSize(SizeNumber(n, 0))

C21_Witness ==
  \E c \in DOMAIN calls :
    /\ UtilReturned(c, "formatFileSize")
    /\ calls[c].args.bytes = SizeString(<<"1", "5", "3", "6">>)
    /\ calls[c].outcome.value = Str("1.5 KB")
    /\ formatFileSize(SizeNumber(1536, 0)) = Str("1.5 KB")

\* two registrations that differ in nothing but the global flag, which the
\* first has true and the second false
SameButGlobal(registration, scoped) ==
  /\ DOMAIN registration = DOMAIN scoped
  /\ registration.global = TRUE
  /\ scoped.global = FALSE
  /\ \A field \in DOMAIN scoped \ {"global"} :
       registration[field] = scoped[field]

\* the options provider of a registration, and what else it says
BindsOptionsExportsService(registration) ==
  /\ Len(registration.providers) = 2
  /\ registration.providers[1].provide = "GOOGLE_DRIVE_OPTIONS"
  /\ registration.providers[2] = ClassRef("GoogleDriveService")
  /\ registration.exports = <<ClassRef("GoogleDriveService")>>

\* C22: forRootGlobal and forRootAsyncGlobal return what forRoot and
\* forRootAsync return for the same options, with global true where those
\* have false; each of the four binds the options value, or the factory with
\* its inject list (empty when none is given), to the GOOGLE_DRIVE_OPTIONS
\* token and exports the service only.
C22_Registrations ==
  \A c \in DOMAIN calls :
    LET options == calls[c].args.options
        value == calls[c].outcome.value
    IN /\ UtilReturned(c, "forRoot")
            => /\ BindsOptionsExportsService(value)
               /\ value.providers[1].useValue = options
               /\ value.global = FALSE
       /\ UtilReturned(c, "forRootAsync")
            => /\ BindsOptionsExportsService(value)
               /\ value.providers[1].useFactory = options.useFactory
               /\ value.providers[1].inject =
                    (IF options.inject = Undefined THEN Array(<<>>)
                     ELSE options.inject)
               /\ value.global = FALSE
       /\ UtilReturned(c, "forRootGlobal")
            => /\ BindsOptionsExportsService(value)
               /\ value.providers[1].useValue = options
               /\ SameButGlobal(value, forRoot(options))
       /\ UtilReturned(c, "forRootAsyncGlobal")
            => /\ BindsOptionsExportsService(value)
               /\ value.providers[1].useFactory = options.useFactory
               /\ SameButGlobal(value, forRootAsync(options))

C22_Witness ==
  \E c \in DOMAIN calls :
    /\ UtilReturned(c, "forRootAsyncGlobal")
    /\ calls[c].args.options.inject = Array(<<"ConfigService">>)
    /\ calls[c].outcome.value.global = TRUE
    /\ calls[c].outcome.value.providers[1].inject = Array(<<"ConfigService">>)

\* the tokens a request sends: those its handle holds as credentials
TokensSent(request) ==
  LET credentials == request.drive.auth.credentials
  IN {credentials.refresh_token, credentials.access_token} \ {Undefined}

\* the tokens of a credentials argument or of the module options
TokensOf(credentials) ==
  {credentials.refreshToken, credentials.accessToken} \ {Undefined}

\* C23: with two invocations in flight in any interleaving, each request of
\* a per-user invocation is on a handle whose credentials are the refresh and
\* access token of that invocation's credentials argument, so it sends those
\* tokens and no others; each request of a module-wide invocation is on the
\* long-lived handle and sends module-wide tokens only; and two invocations
\* share a handle only if both are module-wide.
C23_RequestsCarryOwnCredentials ==
  \A c \in DOMAIN calls :
    \A i \in 1..Len(calls[c].requests) :
      LET request == calls[c].requests[i]
      IN /\ calls[c].op \in UserOps
              => LET own == calls[c].args.userOptions.credentials
                 IN /\ request.drive.auth.credentials =
                         [isSet |-> TRUE,
                          refresh_token |-> own.refreshToken,
                          access_token |-> own.accessToken]
                    /\ TokensSent(request) = TokensOf(own)
                    /\ TokensSent(request) \cap TokensOf(service.options) = {}
                    /\ \A d \in DOMAIN calls \ {c} :
                         \A j \in 1..Len(calls[d].requests) :
                           calls[d].requests[j].drive.id # request.drive.id
         /\ calls[c].op \notin UserOps
              => /\ request.drive = service.drive
                 /\ TokensSent(request) \subseteq TokensOf(service.options)
                 /\ \A userOptions \in UserOptions :
                      TokensSent(request)
                        \cap TokensOf(userOptions.credentials) = {}

\* a per-user download and a module-wide download both await their remote
\* call, each with tokens of its own
C23_Witness ==
  \E c, d \in DOMAIN calls :
    /\ calls[c].pc = "await" /\ calls[d].pc = "await"
    /\ calls[c].op = "downloadFileFromUserDrive"
    /\ calls[d].op = "downloadFile"
    /\ TokensSent(calls[c].requests[1]) = {Str("user1-access")}
    /\ TokensSent(calls[d].requests[1])
         = {Str("module-refresh"), Str("module-access")}

\* the module-wide operations
ModuleOps == ServiceOps \ UserOps

\* ModuleOptions has a refresh token that is not the empty string
HasRefreshToken(options) ==
  options.refreshToken.t = "string" /\ options.refreshToken.s # ""

\* every request of a module-wide invocation is on the long-lived handle as
\* construction left it, and invocations run on a constructed service only
UsedAfterConstruction ==
  \A c \in DOMAIN calls :
    Started(c)
    => /\ service.state = "ready"
       /\ calls[c].op \in ModuleOps
            => \A i \in 1..Len(calls[c].requests) :
                 calls[c].requests[i].drive = service.drive

\* C24 as stated: for every ModuleOptions value the long-lived handle of a
\* constructed service has had its credentials set, before any operation
\* issues a remote call on it.
C24_CredentialsAlwaysSet ==
  /\ service.state = "ready" => service.drive.auth.credentials.isSet
  /\ UsedAfterConstruction

\* C24: construction sets the credentials of the long-lived handle when
\* ModuleOptions has a non-empty refresh token and leaves them unset
\* otherwise; this happens in the construction step, before any operation
\* starts, and no later step changes the handle, so the credentials are set
\* at most once.
C24_CredentialsSetAtMostOnce ==
  /\ [](/\ service.state = "ready"
             => (service.drive.auth.credentials.isSet
                   <=> HasRefreshToken(service.options))
        /\ UsedAfterConstruction)
  /\ [][service.state # "unconstructed" => service' = service]_vars

C24_Witness ==
  /\ service.state = "ready"
  /\ ~HasRefreshToken(service.options)
  /\ ~service.drive.auth.credentials.isSet
  /\ \E c \in DOMAIN calls :
       /\ calls[c].op = "downloadFile"
       /\ calls[c].pc = "await"
       /\ ~calls[c].requests[1].drive.auth.credentials.isSet

\* the input validation of the invocation `call` fails
ValidationFails(call) ==
  \/ call.op \in UploadOps /\ ~validateFileName(call.args.options.name)
  \/ call.op \in DownloadOps \cup MetadataOps /\ BlankId(call.args.fileId)

\* C25: a per-user invocation has built at most one handle; it has built
\* none when its input validation fails (and then issued no remote call); a
\* remote call it issued is on the one handle it built; and a handle built
\* when an invocation starts is a new one, not one of the handles built
\* before, whatever the credentials.
C25_FreshHandlePerInvocation ==
  /\ [](\A c \in DOMAIN calls :
          (Started(c) /\ calls[c].op \in UserOps)
          => /\ Len(calls[c].built) <= 1
             /\ ValidationFails(calls[c])
                  => calls[c].built = <<>> /\ calls[c].requests = <<>>
             /\ \A i \in 1..Len(calls[c].requests) :
                  /\ Len(calls[c].built) = 1
                  /\ calls[c].requests[i].drive = calls[c].built[1])
  /\ [][\A c \in DOMAIN calls :
          (calls[c].pc = "idle" /\ calls'[c].built # <<>>)
          => /\ calls'[c].built[1].id > handlesBuilt
             /\ handlesBuilt' = calls'[c].built[1].id
             /\ calls'[c].built[1] # service.drive]_vars

C25_Witness ==
  /\ handlesBuilt = 3
  /\ \E c \in DOMAIN calls :
       /\ calls[c].op = "testUserDriveConnection"
       /\ calls[c].pc = "await"
       /\ Len(calls[c].built) = 1
       /\ calls[c].built[1].id = 3
       /\ calls[c].requests[1].drive = calls[c].built[1]

\* C26: on a constructed service the long-lived handle holds the refresh and
\* the access token of ModuleOptions when the refresh token is a non-empty
\* string, and no credentials at all otherwise; so with an access token and
\* no refresh token, no request of a module-wide operation sends the access
\* token.
C26_TokensAppliedOnlyWithRefreshToken ==
  service.state = "ready"
  => LET credentials == service.drive.auth.credentials
     IN /\ HasRefreshToken(service.options)
             => /\ credentials.isSet
                /\ credentials.refresh_token = service.options.refreshToken
                /\ credentials.access_token = service.options.accessToken
        /\ ~HasRefreshToken(service.options)
             => /\ ~credentials.isSet
                /\ credentials.refresh_token = Undefined
                /\ credentials.access_token = Undefined
                /\ \A c \in DOMAIN calls :
                     calls[c].op \in ModuleOps
                     => \A i \in 1..Len(calls[c].requests) :
                          TokensSent(calls[c].requests[i]) = {}

C26_Witness ==
  /\ service.state = "ready"
  /\ service.options.refreshToken = Str("")
  /\ service.options.accessToken = Str("module-access")
  /\ \E c \in DOMAIN calls :
       /\ calls[c].op = "uploadFile"
       /\ Resolved(c)
       /\ TokensSent(calls[c].requests[1]) = {}

\* a per-user invocation that ended before any remote call although its
\* input was valid: building its handle threw
BuildFailed(c) ==
  /\ Finished(c)
  /\ calls[c].op \in UserOps
  /\ ~ValidationFails(calls[c])
  /\ calls[c].requests = <<>>

\* C27: a per-user invocation whose handle could not be built has issued no
\* remote call and has the failure outcome of its operation: a
\* FileUploadError for uploadFileToUserDrive, a FileDownloadError for
\* downloadFileFromUserDrive and getFileMetadataFromUserDrive, false for
\* testUserDriveConnection; and no invocation of any operation ends with a
\* ConfigurationError.
C27_BuildFailureIsOperationFailure ==
  \A c \in DOMAIN calls :
    /\ BuildFailed(c)
         => /\ calls[c].settled = Pending
            /\ calls[c].built = <<>>
            /\ calls[c].op = "uploadFileToUserDrive"
                 => ThrewA(c, "FileUploadError")
            /\ calls[c].op \in {"downloadFileFromUserDrive",
                                "getFileMetadataFromUserDrive"}
                 => ThrewA(c, "FileDownloadError")
            /\ calls[c].op = "testUserDriveConnection"
                 => calls[c].outcome = Returned(Bool(FALSE))
    /\ calls[c].outcome.kind = "throw"
         => ~InstanceOf(calls[c].outcome.value, "ConfigurationError")

C27_Witness ==
  \E c \in DOMAIN calls :
    /\ BuildFailed(c)
    /\ calls[c].op = "downloadFileFromUserDrive"
    /\ ThrewA(c, "FileDownloadError")
    /\ calls[c].outcome.value.cause
         = LibError("The argument must be of type string", TRUE,
                    Str("ERR_INVALID_ARG_TYPE"))

====
